---- MODULE Spec2Model ----
(***************************************************************************)
(* The "start" command of cmd/temporalite/main.go: the Before hook (flag   *)
(* validation), the Action handler (option composition, search-attribute   *)
(* parsing, logger and server construction, blocking start) and the exit   *)
(* status main() ends the process with.                                    *)
(*                                                                         *)
(* One behaviour is one invocation `temporalite start ...` that reaches    *)
(* the command's Before hook.  The raw input is chosen in Init; the        *)
(* external collaborators (zap's Build, temporalite.NewServer and          *)
(* Server.Start) succeed or fail nondeterministically.                     *)
(***************************************************************************)
EXTENDS Integers, Sequences, FiniteSets, TLC

VARIABLES
    input,      \* the cli.Context of the invocation (flags set, values, args)
    pc,         \* position in Before / Action
    opts,       \* the []temporalite.ServerOption built so far
    sa,         \* the map parseSearchAttributes returned (NilMap before)
    beforeErr,  \* what the Before hook returned
    srv,        \* the server s: "nil", "built", "serving", "stopped", "failed"
    exit,       \* how the process ended: [code, msg], or Alive
    stages      \* history: the stages the run has entered, in order

vars == <<input, pc, opts, sa, beforeErr, srv, exit, stages>>

----------------------------------------------------------------------------
(* Bounds of the input space *)

MaxLen == 2     \* longest --search-attributes-key / -type list
MaxArgs == 1    \* most positional arguments passed to start

----------------------------------------------------------------------------
(* Flag names, main.go:31-39 *)

searchAttrType == "search-attributes-type"
searchAttrKey == "search-attributes-key"
ephemeralFlag == "ephemeral"
dbPathFlag == "filename"
portFlag == "port"
logFormatFlag == "log-format"
namespaceFlag == "namespace"

\* The flags whose c.IsSet the code consults.
IsSetFlags == {searchAttrType, searchAttrKey, ephemeralFlag, dbPathFlag}

\* Flag defaults (Value: fields of the flag declarations).
defaultCfg == [Ephemeral |-> FALSE, DatabaseFilePath |-> "default.db"]

\* enums.IndexedValueType_value: name -> number, looked up by exact string.
IndexedValueType_value ==
    [Unspecified |-> 0, Text |-> 1, Keyword |-> 2, Int |-> 3, Double |-> 4,
     Bool |-> 5, Datetime |-> 6, KeywordList |-> 7]

----------------------------------------------------------------------------
(* The raw inputs enumerated *)

KeyNames == {"A", "B"}
TypeTokens == {"Keyword", "Int", "keyword", "Strng"}
FileNames == {"foo.db", "bar.db"}
Ports == {7233, 7777}
LogFormats == {"json", "pretty", "xml"}
NamespaceLists == {<<>>, <<"b", "a">>}

SeqsUpTo(S, n) == UNION {[1..k -> S] : k \in 1..n}

\* A cli.Context: `set` holds the flags passed explicitly; an unset flag
\* reads as its declared default, a set list flag holds at least one token.
Context(n, s, e, f, p, l, ns, ks, ts) ==
    [nargs |-> n, set |-> s, ephemeral |-> e, filename |-> f, port |-> p,
     logFormat |-> l, namespaces |-> ns, keys |-> ks, types |-> ts]

\* The values a flag can read as, given the flags that are set.
EphemeralValues(s) ==
    IF ephemeralFlag \in s THEN BOOLEAN ELSE {defaultCfg.Ephemeral}
FilenameValues(s) ==
    IF dbPathFlag \in s THEN FileNames ELSE {defaultCfg.DatabaseFilePath}
KeyLists(s) ==
    IF searchAttrKey \in s THEN SeqsUpTo(KeyNames, MaxLen) ELSE {<<>>}
TypeLists(s) ==
    IF searchAttrType \in s THEN SeqsUpTo(TypeTokens, MaxLen) ELSE {<<>>}

----------------------------------------------------------------------------
(* Errors *)

Nil == [kind |-> "nil"]
\* cli.Exit(message, code): an error carrying an exit code.
Exit(msg, code) == [kind |-> "exit", msg |-> msg, code |-> code]
\* fmt.Errorf / an error of a collaborator: no exit code attached.
Errorf(msg) == [kind |-> "error", msg |-> msg]
\* A Go run-time panic (index out of range).
Panic == [kind |-> "panic"]

IsSet(c, flag) == flag \in c.set

\* c.Args().Len()
ArgsLen(c) == c.nargs
\* c.Bool(ephemeralFlag)
Bool(c, flag) == c.ephemeral
\* c.Int(portFlag)
Int_(c, flag) == c.port
\* c.String(dbPathFlag), c.String(logFormatFlag)
String(c, flag) == IF flag = dbPathFlag THEN c.filename ELSE c.logFormat
\* c.StringSlice(namespaceFlag | searchAttrKey | searchAttrType)
StringSlice(c, flag) ==
    CASE flag = searchAttrKey -> c.keys
      [] flag = searchAttrType -> c.types
      [] OTHER -> c.namespaces

----------------------------------------------------------------------------
(* searchAttributesValid, main.go:180-188 *)

\* searchAttributesValid with the pairing test never firing (|| written as &&).
searchAttributesValid_NoPairing(c) ==
    IF /\ IsSet(c, searchAttrType) /\ IsSet(c, searchAttrKey)
       /\ Len(StringSlice(c, searchAttrType))
            # Len(StringSlice(c, searchAttrKey))
    THEN Exit(<<"ERROR: number of search attributes (type/key) in ",
                searchAttrType, " and ", searchAttrKey,
                " must be the same">>, 1)
    ELSE Nil

\* searchAttributesValid without the length comparison.
searchAttributesValid_NoLength(c) ==
    IF /\ (IsSet(c, searchAttrType) \/ IsSet(c, searchAttrKey))
       /\ ~(IsSet(c, searchAttrType) /\ IsSet(c, searchAttrKey))
    THEN Exit(<<"ERROR: both ", searchAttrType, " and ", searchAttrKey,
                " must be set at the same time, or omitted completely">>, 1)
    ELSE Nil

searchAttributesValid(c) ==
    IF /\ (IsSet(c, searchAttrType) \/ IsSet(c, searchAttrKey))
       /\ ~(IsSet(c, searchAttrType) /\ IsSet(c, searchAttrKey))
    THEN Exit(<<"ERROR: both ", searchAttrType, " and ", searchAttrKey,
                " must be set at the same time, or omitted completely">>, 1)
    ELSE IF /\ IsSet(c, searchAttrType) /\ IsSet(c, searchAttrKey)
            /\ Len(StringSlice(c, searchAttrType))
                 # Len(StringSlice(c, searchAttrKey))
    THEN Exit(<<"ERROR: number of search attributes (type/key) in ",
                searchAttrType, " and ", searchAttrKey,
                " must be the same">>, 1)
    ELSE Nil

----------------------------------------------------------------------------
(* The Before hook of start, main.go:102-118 *)

\* The hook without the ephemeral/filename exclusion.
BeforeHook_NoExclusion(c) ==
    IF ArgsLen(c) > 0
    THEN Exit(<<"ERROR: start command doesn't support arguments.">>, 1)
    ELSE IF searchAttributesValid(c).kind # "nil"
    THEN searchAttributesValid(c)
    ELSE IF String(c, logFormatFlag) \notin {"json", "pretty"}
    THEN Exit(<<"bad value ", String(c, logFormatFlag), " passed for flag ",
                logFormatFlag>>, 1)
    ELSE Nil

\* The hook testing the value of --ephemeral (c.Bool) instead of c.IsSet.
BeforeHook_ByValue(c) ==
    IF ArgsLen(c) > 0
    THEN Exit(<<"ERROR: start command doesn't support arguments.">>, 1)
    ELSE IF Bool(c, ephemeralFlag) /\ IsSet(c, dbPathFlag)
    THEN Exit(<<"ERROR: only one of ", ephemeralFlag, " or ", dbPathFlag,
                " flags may be passed at a time">>, 1)
    ELSE IF searchAttributesValid(c).kind # "nil"
    THEN searchAttributesValid(c)
    ELSE IF String(c, logFormatFlag) \notin {"json", "pretty"}
    THEN Exit(<<"bad value ", String(c, logFormatFlag), " passed for flag ",
                logFormatFlag>>, 1)
    ELSE Nil

BeforeHook(c) ==
    IF ArgsLen(c) > 0
    THEN Exit(<<"ERROR: start command doesn't support arguments.">>, 1)
    ELSE IF IsSet(c, ephemeralFlag) /\ IsSet(c, dbPathFlag)
    THEN Exit(<<"ERROR: only one of ", ephemeralFlag, " or ", dbPathFlag,
                " flags may be passed at a time">>, 1)
    ELSE IF searchAttributesValid(c).kind # "nil"
    THEN searchAttributesValid(c)
    ELSE IF String(c, logFormatFlag) \notin {"json", "pretty"}
    THEN Exit(<<"bad value ", String(c, logFormatFlag), " passed for flag ",
                logFormatFlag>>, 1)
    ELSE Nil

----------------------------------------------------------------------------
(* parseSearchAttributes, main.go:168-178 *)

\* A Go map value: nil, or the entries m (a function from key to type).
NilMap == [isNil |-> TRUE, m |-> <<>>]
MakeMap == [isNil |-> FALSE, m |-> <<>>]
\* A store that keeps the entry a key already has.
Store_KeepFirst(mp, key, t) ==
    [isNil |-> FALSE,
     m |-> [k \in DOMAIN mp.m \cup {key} |->
                IF k \in DOMAIN mp.m THEN mp.m[k] ELSE t]]

\* searchAttributes[key] = t
Store(mp, key, t) ==
    [isNil |-> FALSE,
     m |-> [k \in DOMAIN mp.m \cup {key} |-> IF k = key THEN t ELSE mp.m[k]]]

\* An unknown token returning the entries stored so far.
UnknownType_Partial(searchAttributes, token) ==
    [sa |-> searchAttributes,
     err |-> Errorf(<<"the type: ", token,
                      " is not a valid type for a search attribute">>)]

\* main.go:172-174: the return taken on an unknown type token.
UnknownType(searchAttributes, token) ==
    [sa |-> NilMap,
     err |-> Errorf(<<"the type: ", token,
                      " is not a valid type for a search attribute">>)]

RECURSIVE parseLoop(_, _, _, _)
\* The body of `for i, key := range keys`, from index i on.
parseLoop(keys, types, i, searchAttributes) ==
    IF i > Len(keys)
    THEN [sa |-> searchAttributes, err |-> Nil]
    ELSE IF i > Len(types)
    THEN [sa |-> NilMap, err |-> Panic]
    ELSE IF types[i] \notin DOMAIN IndexedValueType_value
    THEN UnknownType(searchAttributes, types[i])
    ELSE parseLoop(keys, types, i + 1,
                   Store(searchAttributes, keys[i],
                         IndexedValueType_value[types[i]]))

parseSearchAttributes(keys, types) == parseLoop(keys, types, 1, MakeMap)

----------------------------------------------------------------------------
(* main, main.go:45-49: how an error returned by Run ends the process.     *)
(* An error made by cli.Exit exits with its own code (and prints its       *)
(* message); any other error reaches goLog.Fatal, which exits with 1; a    *)
(* panic ends the process with status 2.                                   *)

\* main dropping the error Run returns (no goLog.Fatal).
main_NoFatal(err) ==
    CASE err.kind = "exit" -> [code |-> err.code, msg |-> err.msg]
      [] err.kind = "panic" -> [code |-> 2, msg |-> <<"panic">>]
      [] OTHER -> [code |-> 0, msg |-> <<>>]

main(err) ==
    CASE err.kind = "exit" -> [code |-> err.code, msg |-> err.msg]
      [] err.kind = "error" -> [code |-> 1, msg |-> err.msg]
      [] err.kind = "panic" -> [code |-> 2, msg |-> <<"panic">>]
      [] OTHER -> [code |-> 0, msg |-> <<>>]

Alive == [code |-> -1, msg |-> <<>>]

----------------------------------------------------------------------------
(* Server options: a directive is its constructor's name and argument. *)

WithFrontendPort(p) == [name |-> "WithFrontendPort", arg |-> p]
WithDatabaseFilePath(f) == [name |-> "WithDatabaseFilePath", arg |-> f]
WithNamespaces(ns) == [name |-> "WithNamespaces", arg |-> ns]
WithUpstreamOptions(o) == [name |-> "WithUpstreamOptions", arg |-> o]
WithPersistenceDisabled == [name |-> "WithPersistenceDisabled", arg |-> <<>>]
WithSearchAttributes(mp) == [name |-> "WithSearchAttributes", arg |-> mp]
WithLogger(l) == [name |-> "WithLogger", arg |-> l]

\* main.go:120-130: the base options, then the ephemeral switch.
BaseOptions(c) ==
    << WithFrontendPort(Int_(c, portFlag)),
       WithDatabaseFilePath(String(c, dbPathFlag)),
       WithNamespaces(StringSlice(c, namespaceFlag)),
       WithUpstreamOptions("InterruptOn(InterruptCh())") >>

\* The switch reading c.IsSet instead of c.Bool.
EphemeralOption_IsSet(c) ==
    IF IsSet(c, ephemeralFlag) THEN <<WithPersistenceDisabled>> ELSE <<>>

EphemeralOption(c) ==
    IF Bool(c, ephemeralFlag) THEN <<WithPersistenceDisabled>> ELSE <<>>

\* main.go:131: whether the Action parses search attributes.
WantsSearchAttributes(c) ==
    IsSet(c, searchAttrType) /\ IsSet(c, searchAttrKey)

\* The test inverted.
WantsPrettyLogger_Json(c) == String(c, logFormatFlag) = "json"

\* main.go:138: whether the Action builds the pretty logger.
WantsPrettyLogger(c) == String(c, logFormatFlag) = "pretty"

----------------------------------------------------------------------------
(* The run *)

Init ==
    /\ \E n \in 0..MaxArgs, s \in SUBSET IsSetFlags, p \in Ports,
          l \in LogFormats, ns \in NamespaceLists :
          \E e \in EphemeralValues(s), f \in FilenameValues(s),
             ks \in KeyLists(s), ts \in TypeLists(s) :
             input = Context(n, s, e, f, p, l, ns, ks, ts)
    /\ pc = "Before"
    /\ opts = <<>>
    /\ sa = NilMap
    /\ beforeErr = Nil
    /\ srv = "nil"
    /\ exit = Alive
    /\ stages = <<"Validating">>

\* Returning err from Before or Action: Run hands it to main, the process ends.
Fail(err) ==
    /\ pc' = "Exited"
    /\ exit' = main(err)
    /\ stages' = Append(stages, "Failed")

\* The hook's error dropped: the Action runs whatever validation said.
Before_Proceeds ==
    /\ pc = "Before"
    /\ beforeErr' = BeforeHook(input)
    /\ pc' = "Action"
    /\ UNCHANGED <<input, opts, sa, srv, exit, stages>>

\* main.go:102-118.  A non-nil result keeps the Action from running.
Before ==
    /\ pc = "Before"
    /\ beforeErr' = BeforeHook(input)
    /\ IF BeforeHook(input).kind = "nil"
       THEN pc' = "Action" /\ UNCHANGED <<exit, stages>>
       ELSE Fail(BeforeHook(input))
    /\ UNCHANGED <<input, opts, sa, srv>>

\* main.go:119-131: the base options and the ephemeral switch.
ActionBase ==
    /\ pc = "Action"
    /\ opts' = BaseOptions(input) \o EphemeralOption(input)
    /\ IF WantsSearchAttributes(input)
       THEN pc' = "Parse" /\ stages' = stages \o <<"Composing", "Parsing">>
       ELSE pc' = "Logger" /\ stages' = Append(stages, "Composing")
    /\ UNCHANGED <<input, sa, beforeErr, srv, exit>>

\* main.go:132-137.
ActionParse ==
    /\ pc = "Parse"
    /\ LET r == parseSearchAttributes(StringSlice(input, searchAttrKey),
                                      StringSlice(input, searchAttrType))
       IN /\ sa' = r.sa
          /\ IF r.err.kind = "nil"
             THEN /\ opts' = Append(opts, WithSearchAttributes(r.sa))
                  /\ pc' = "Logger"
                  /\ stages' = Append(stages, "Composing")
                  /\ UNCHANGED exit
             ELSE Fail(r.err) /\ UNCHANGED opts
    /\ UNCHANGED <<input, beforeErr, srv>>

\* main.go:138-150.  lcfg.Build may fail.
ActionLogger ==
    /\ pc = "Logger"
    /\ IF WantsPrettyLogger(input)
       THEN \E built \in BOOLEAN :
               IF built
               THEN /\ opts' = Append(opts, WithLogger("zap"))
                    /\ pc' = "NewServer"
                    /\ stages' = Append(stages, "Constructing")
                    /\ UNCHANGED exit
               ELSE Fail(Errorf(<<"zap: build failed">>)) /\ UNCHANGED opts
       ELSE /\ pc' = "NewServer"
            /\ stages' = Append(stages, "Constructing")
            /\ UNCHANGED <<opts, exit>>
    /\ UNCHANGED <<input, sa, beforeErr, srv>>

\* main.go:152-155.  temporalite.NewServer may fail.
ActionNewServer ==
    /\ pc = "NewServer"
    /\ \E built \in BOOLEAN :
          IF built
          THEN /\ srv' = "built"
               /\ pc' = "Start"
               /\ stages' = Append(stages, "Starting")
               /\ UNCHANGED exit
          ELSE Fail(Errorf(<<"NewServer failed">>)) /\ UNCHANGED srv
    /\ UNCHANGED <<input, opts, sa, beforeErr>>

\* main.go:157-159: s.Start() fails at startup, or the server is serving
\* and the call blocks.
ActionStart ==
    /\ pc = "Start"
    /\ \E started \in BOOLEAN :
          IF started
          THEN /\ srv' = "serving"
               /\ pc' = "Running"
               /\ stages' = Append(stages, "Running")
               /\ UNCHANGED exit
          ELSE /\ srv' = "failed"
               /\ Fail(Exit(<<"Unable to start server. Error: ", "start">>, 1))
    /\ UNCHANGED <<input, opts, sa, beforeErr>>

\* main.go:157-160: the blocking s.Start() returns, nil after a clean
\* shutdown or with the server's error.
ActionStartReturns ==
    /\ pc = "Running"
    /\ \E clean \in BOOLEAN :
          IF clean
          THEN /\ srv' = "stopped"
               /\ pc' = "Exited"
               /\ exit' = main(Exit(<<"All services are stopped.">>, 0))
               /\ stages' = Append(stages, "Stopped")
          ELSE /\ srv' = "failed"
               /\ Fail(Exit(<<"Unable to start server. Error: ", "run">>, 1))
    /\ UNCHANGED <<input, opts, sa, beforeErr>>

Next ==
    \/ Before
    \/ ActionBase
    \/ ActionParse
    \/ ActionLogger
    \/ ActionNewServer
    \/ ActionStart
    \/ ActionStartReturns

Spec == Init /\ [][Next]_vars

----------------------------------------------------------------------------
(* Vocabulary of the properties *)

Range(q) == {q[i] : i \in DOMAIN q}
Last(q) == q[Len(q)]
\* The message names the flag.
Mentions(msg, flag) == flag \in Range(msg)
HasOption(name) == \E i \in DOMAIN opts : opts[i].name = name
OptionNames == [i \in DOMAIN opts |-> opts[i].name]

\* The Before hook has returned.
Validated == pc # "Before"
ValidationPassed == Validated /\ beforeErr.kind = "nil"
\* Validation failed with exit status 1 and the process ended there.
ValidationFailed ==
    /\ Validated
    /\ beforeErr.kind = "exit"
    /\ beforeErr.code = 1
    /\ pc = "Exited"
    /\ exit.code = 1
    /\ exit.msg = beforeErr.msg
\* The Action handler never ran.
ActionNotEntered ==
    /\ opts = <<>>
    /\ sa = NilMap
    /\ srv = "nil"
    /\ stages = <<"Validating", "Failed">>
\* parseSearchAttributes has been called and has returned.
ParseReturned == "Parsing" \in Range(stages) /\ pc # "Parse"
\* The run ended in the Parsing stage.
ParseFailed ==
    \E i \in DOMAIN stages :
        stages[i] = "Parsing" /\ i < Len(stages) /\ stages[i + 1] = "Failed"

BothExclusiveSet == IsSet(input, ephemeralFlag) /\ IsSet(input, dbPathFlag)
ExactlyOneListSet == IsSet(input, searchAttrKey) # IsSet(input, searchAttrType)
NeitherListSet ==
    ~IsSet(input, searchAttrKey) /\ ~IsSet(input, searchAttrType)
BothListsSet == IsSet(input, searchAttrKey) /\ IsSet(input, searchAttrType)
LogFormatKnown == input.logFormat \in {"json", "pretty"}
Recognized(token) == token \in DOMAIN IndexedValueType_value
AllRecognized == \A i \in DOMAIN input.types : Recognized(input.types[i])

----------------------------------------------------------------------------
(* C1 *)

\* C1 as stated: whenever --ephemeral and --filename are both explicitly
\* set, validation fails with exit status 1 and a message naming both
\* flags, whatever their values, and the Action is never entered.
C1_AsStated ==
    (Validated /\ BothExclusiveSet) =>
        /\ ValidationFailed
        /\ Mentions(beforeErr.msg, ephemeralFlag)
        /\ Mentions(beforeErr.msg, dbPathFlag)
        /\ ActionNotEntered

\* C1 amended: whenever --ephemeral and --filename are both explicitly set,
\* validation fails with exit status 1, whatever their values, and the
\* Action is never entered; the message names both flags when no positional
\* argument was passed (with positional arguments the message is the one
\* about arguments, which names neither flag).
C1_ExclusiveFlags ==
    (Validated /\ BothExclusiveSet) =>
        /\ ValidationFailed
        /\ ActionNotEntered
        /\ (ArgsLen(input) = 0) =>
               /\ Mentions(beforeErr.msg, ephemeralFlag)
               /\ Mentions(beforeErr.msg, dbPathFlag)
        /\ (ArgsLen(input) > 0) =>
               /\ ~Mentions(beforeErr.msg, ephemeralFlag)
               /\ ~Mentions(beforeErr.msg, dbPathFlag)

\* --ephemeral=false --filename foo.db, no arguments: rejected.
C1_Witness ==
    /\ Validated
    /\ BothExclusiveSet
    /\ ~Bool(input, ephemeralFlag)
    /\ ArgsLen(input) = 0
    /\ ValidationFailed
    /\ Mentions(exit.msg, ephemeralFlag)

----------------------------------------------------------------------------
(* C2 *)

\* No SearchAttributeSpec is produced: the parser is never invoked and no
\* register-search-attributes directive is composed.
NoSearchAttributeSpec ==
    /\ pc # "Parse"
    /\ "Parsing" \notin Range(stages)
    /\ sa = NilMap
    /\ ~HasOption("WithSearchAttributes")

\* C2 as stated: with exactly one of the two search-attribute lists set,
\* validation fails with exit status 1; with both unset, validation passes
\* and no SearchAttributeSpec is produced.
C2_AsStated ==
    Validated =>
        /\ ExactlyOneListSet => ValidationFailed
        /\ NeitherListSet => (ValidationPassed /\ NoSearchAttributeSpec)

\* C2 amended: with exactly one of the two lists set, validation fails with
\* exit status 1; with both unset, the search-attribute rules do not fail
\* (validation passes whenever there is no positional argument, --ephemeral
\* and --filename are not both set and the log format is json or pretty),
\* and no SearchAttributeSpec is produced.
C2_MatchedPair ==
    Validated =>
        /\ ExactlyOneListSet => ValidationFailed
        /\ NeitherListSet =>
              /\ NoSearchAttributeSpec
              /\ beforeErr.kind = "exit" =>
                     /\ ~Mentions(beforeErr.msg, searchAttrKey)
                     /\ ~Mentions(beforeErr.msg, searchAttrType)
              /\ (ArgsLen(input) = 0 /\ ~BothExclusiveSet /\ LogFormatKnown)
                     => ValidationPassed

\* Neither list set, validation passed, composition finished without a
\* register-search-attributes directive.
C2_Witness ==
    /\ NeitherListSet
    /\ ValidationPassed
    /\ pc = "NewServer"
    /\ NoSearchAttributeSpec

----------------------------------------------------------------------------
(* C3 *)

\* C3: when both lists are set with different lengths, validation fails
\* before parsing is attempted; parseSearchAttributes is only ever invoked
\* with len(keys) = len(types), so types[i] is never out of range (the
\* process never ends by a panic).
C3_EqualLengthsAtParse ==
    /\ (Validated /\ BothListsSet /\ Len(input.keys) # Len(input.types)) =>
           (ValidationFailed /\ ActionNotEntered)
    /\ (pc = "Parse" \/ "Parsing" \in Range(stages)) =>
           Len(StringSlice(input, searchAttrKey))
             = Len(StringSlice(input, searchAttrType))
    /\ exit.code # 2

\* parseSearchAttributes is about to run on two lists of two tokens.
C3_Witness ==
    /\ pc = "Parse"
    /\ Len(input.keys) = 2
    /\ Len(input.types) = 2

----------------------------------------------------------------------------
(* C4 *)

\* The last position at which key occurs in keys.
LastIndex(keys, key) ==
    CHOOSE i \in DOMAIN keys :
        keys[i] = key /\ \A j \in DOMAIN keys : keys[j] = key => j <= i

\* C4: on equal-length lists whose type tokens are all recognized,
\* parseSearchAttributes succeeds and returns a map whose key set is exactly
\* the names of the key list, each name mapped to the type at the last
\* position where the name occurs.
C4_LastWriteWins ==
    (ParseReturned /\ AllRecognized) =>
        /\ ~ParseFailed
        /\ ~sa.isNil
        /\ DOMAIN sa.m = Range(input.keys)
        /\ \A k \in Range(input.keys) :
              sa.m[k] = IndexedValueType_value[
                           input.types[LastIndex(input.keys, k)]]

\* A,A with Keyword,Int: one entry, A -> Int.
C4_Witness ==
    /\ ParseReturned
    /\ input.keys = <<"A", "A">>
    /\ input.types = <<"Keyword", "Int">>
    /\ DOMAIN sa.m = {"A"}
    /\ sa.m["A"] = IndexedValueType_value["Int"]

----------------------------------------------------------------------------
(* C5 *)

\* The first position holding an unrecognized type token.
FirstUnrecognized(types) ==
    CHOOSE i \in DOMAIN types :
        ~Recognized(types[i]) /\ \A j \in 1..(i - 1) : Recognized(types[j])

\* C5: on equal-length lists with an unrecognized type token,
\* parseSearchAttributes fails, returns a nil map (not the entries parsed
\* before the bad token), and the error names the first unrecognized token;
\* the run ends there with no register-search-attributes directive.
C5_UnknownTypeFails ==
    (ParseReturned /\ ~AllRecognized) =>
        /\ sa = NilMap
        /\ ParseFailed
        /\ pc = "Exited"
        /\ exit.code = 1
        /\ Mentions(exit.msg, input.types[FirstUnrecognized(input.types)])
        /\ \A i \in DOMAIN input.types :
              (~Recognized(input.types[i])
                 /\ input.types[i]
                      # input.types[FirstUnrecognized(input.types)])
              => ~Mentions(exit.msg, input.types[i])
        /\ ~HasOption("WithSearchAttributes")

\* Keyword,keyword: the second token is rejected after the first was stored.
C5_Witness ==
    /\ ParseReturned
    /\ input.types = <<"Keyword", "keyword">>
    /\ sa = NilMap
    /\ Mentions(exit.msg, "keyword")

----------------------------------------------------------------------------
(* C6 *)

\* The Action has finished composing: the options are the ones NewServer
\* is, or was, called with.
Composed == pc \in {"NewServer", "Start", "Running"} \/ srv # "nil"

\* C6 as stated: a log format outside {json, pretty} fails validation with
\* exit status 1; json and pretty both pass validation; the composed
\* options hold the logger override iff the log format is pretty.
C6_AsStated ==
    /\ Validated =>
          /\ ~LogFormatKnown => ValidationFailed
          /\ LogFormatKnown => ValidationPassed
    /\ Composed => (HasOption("WithLogger") <=> input.logFormat = "pretty")

\* C6 amended: a log format outside {json, pretty} fails validation with
\* exit status 1; json and pretty are never the reason validation fails
\* (validation passes for them whenever there is no positional argument,
\* --ephemeral and --filename are not both set, and the search-attribute
\* lists are both unset or both set with equal lengths); the composed
\* options hold the logger override iff the log format is pretty.
C6_LogFormat ==
    /\ Validated =>
          /\ ~LogFormatKnown => ValidationFailed
          /\ LogFormatKnown =>
                /\ beforeErr.kind = "exit" =>
                       ~Mentions(beforeErr.msg, logFormatFlag)
                /\ ( /\ ArgsLen(input) = 0
                     /\ ~BothExclusiveSet
                     /\ ~ExactlyOneListSet
                     /\ Len(input.keys) = Len(input.types) )
                   => ValidationPassed
    /\ Composed => (HasOption("WithLogger") <=> input.logFormat = "pretty")
    /\ HasOption("WithLogger") => opts[Len(opts)].name = "WithLogger"

\* --log-format pretty: composition ended with the logger override.
C6_Witness ==
    /\ pc = "NewServer"
    /\ input.logFormat = "pretty"
    /\ HasOption("WithLogger")

----------------------------------------------------------------------------
(* C7 *)

\* C7: the exit status is 0 only when the server was constructed and
\* started and its blocking Start returned nil; every failure (validation,
\* parse, logger or server construction, start) ends the process with exit
\* status 1; a failure ends the run: no stage is entered twice except
\* Composing around Parsing, and nothing follows Failed or Stopped.
C7_ExitStatus ==
    /\ (pc = "Exited") <=> (exit # Alive)
    /\ pc = "Exited" =>
          /\ exit.code \in {0, 1}
          /\ Last(stages) \in {"Failed", "Stopped"}
          /\ exit.code = 0 <=> Last(stages) = "Stopped"
          /\ exit.code = 0 =>
                /\ srv = "stopped"
                /\ beforeErr.kind = "nil"
                /\ {"Constructing", "Starting", "Running"} \subseteq Range(stages)
          /\ exit.code = 1 => srv \in {"nil", "built", "failed"}
          /\ ~ENABLED Next
    /\ \A i \in DOMAIN stages :
          /\ stages[i] \in {"Failed", "Stopped"} =>
                (i = Len(stages) /\ pc = "Exited")
          /\ \A j \in DOMAIN stages :
                (i # j /\ stages[i] = stages[j]) => stages[i] = "Composing"

\* A clean shutdown: exit status 0.
C7_Witness ==
    /\ pc = "Exited"
    /\ exit.code = 0
    /\ srv = "stopped"
    /\ exit.msg = <<"All services are stopped.">>

----------------------------------------------------------------------------
(* C8 *)

\* What the claim says validation depends on.
Features(c) ==
    [nargs |-> ArgsLen(c), set |-> c.set, nkeys |-> Len(c.keys),
     ntypes |-> Len(c.types), logFormat |-> c.logFormat]

\* One fixed input with the given features.
Canon(f) ==
    Context(f.nargs, f.set, ephemeralFlag \in f.set,
            IF dbPathFlag \in f.set THEN "foo.db"
                                    ELSE defaultCfg.DatabaseFilePath,
            7233, f.logFormat, <<>>,
            [i \in 1..f.nkeys |-> "A"], [i \in 1..f.ntypes |-> "Keyword"])

\* C8: validation is a function of the positional-argument count, the set
\* of flags explicitly set, the two list lengths and the log-format value
\* (its result is the one it gives on any input with the same features, so
\* on the same input again), and the validation step changes neither the
\* input nor any other state of the run.
C8_ValidationPure ==
    /\ [](Validated =>
            /\ beforeErr = BeforeHook(Canon(Features(input)))
            /\ beforeErr = BeforeHook(input))
    /\ [][pc = "Before" =>
            /\ input' = input
            /\ opts' = opts
            /\ sa' = sa
            /\ srv' = srv]_vars

\* Validated with --ephemeral=false, a non-canonical file name and port.
C8_Witness ==
    /\ Validated
    /\ IsSet(input, ephemeralFlag)
    /\ ~Bool(input, ephemeralFlag)
    /\ input.filename = "bar.db"
    /\ input.port = 7777
    /\ input # Canon(Features(input))
    /\ beforeErr.kind = "exit"

----------------------------------------------------------------------------
(* C9 *)

BaseNames ==
    <<"WithFrontendPort", "WithDatabaseFilePath", "WithNamespaces",
      "WithUpstreamOptions">>

\* C9: every composed option list starts with the four base directives
\* (frontend port, database file path, namespaces in the order given,
\* interrupt hook), the file path being there in ephemeral mode too; the
\* persistence-disabled directive is present iff the resolved ephemeral
\* value is true, once, and after the database-file-path directive.
C9_BaseOptions ==
    opts # <<>> =>
        /\ Len(opts) >= 4
        /\ SubSeq(OptionNames, 1, 4) = BaseNames
        /\ opts[1].arg = Int_(input, portFlag)
        /\ opts[2].arg = String(input, dbPathFlag)
        /\ opts[3].arg = StringSlice(input, namespaceFlag)
        /\ HasOption("WithPersistenceDisabled") <=> Bool(input, ephemeralFlag)
        /\ \A i \in DOMAIN opts :
              opts[i].name = "WithPersistenceDisabled" => i = 5
        /\ \A i \in DOMAIN opts :
              opts[i].name \in Range(BaseNames) => i <= 4

\* Ephemeral mode: the file path directive and, after it, persistence
\* disabled.
C9_Witness ==
    /\ Len(opts) >= 5
    /\ Bool(input, ephemeralFlag)
    /\ opts[2].name = "WithDatabaseFilePath"
    /\ opts[5].name = "WithPersistenceDisabled"
    /\ input.namespaces = <<"b", "a">>

----------------------------------------------------------------------------
(* C10 *)

\* The order of the stages as the claim gives it.
StatedRank(stage) ==
    CASE stage = "Validating" -> 1
      [] stage = "Parsing" -> 2
      [] stage = "Composing" -> 3
      [] stage = "Constructing" -> 4
      [] stage = "Starting" -> 5
      [] stage = "Running" -> 6
      [] OTHER -> 7

\* The order of the stages in the code: the base options are composed
\* before the search attributes are parsed.
CodeRank(stage) ==
    CASE stage = "Validating" -> 1
      [] stage = "Composing" -> 2
      [] stage = "Parsing" -> 2
      [] stage = "Constructing" -> 3
      [] stage = "Starting" -> 4
      [] stage = "Running" -> 5
      [] OTHER -> 6

\* Validation completes before anything else touches the input; Parsing is
\* entered only after successful validation with attributes requested and
\* is skipped otherwise; the server is constructed and started only after
\* composition has fully succeeded.
StagesCommon ==
    /\ stages[1] = "Validating"
    /\ pc = "Before" => (stages = <<"Validating">> /\ opts = <<>>
                          /\ sa = NilMap /\ srv = "nil")
    /\ (Len(stages) > 1 /\ stages[2] # "Failed") => ValidationPassed
    /\ (pc = "Parse" \/ "Parsing" \in Range(stages)) =>
          (ValidationPassed /\ WantsSearchAttributes(input))
    /\ (ValidationPassed /\ ~WantsSearchAttributes(input)) =>
          NoSearchAttributeSpec
    /\ (pc \in {"NewServer", "Start", "Running"} \/ srv # "nil") =>
          /\ WantsSearchAttributes(input) =>
                (HasOption("WithSearchAttributes") /\ ~sa.isNil)
          /\ WantsPrettyLogger(input) => HasOption("WithLogger")
          /\ "Constructing" \in Range(stages)
    /\ Last(stages) \in {"Stopped", "Failed"} <=> pc = "Exited"

\* C10 as stated: the stages occur in the order Validating, Parsing,
\* Composing, Constructing, Starting, Running, then Stopped or Failed, and
\* search-attribute parsing finishes before any configuration directive is
\* composed.
C10_AsStated ==
    /\ StagesCommon
    /\ \A i, j \in DOMAIN stages :
          i < j => StatedRank(stages[i]) < StatedRank(stages[j])
    /\ (WantsSearchAttributes(input) /\ ~ParseReturned) => opts = <<>>

\* C10 amended: the stages occur in the order Validating, Composing (the
\* base directives, interrupt hook included, and the persistence switch),
\* Parsing when attributes were requested, Composing (the search-attribute
\* and logger directives), Constructing, Starting, Running, then Stopped or
\* Failed; search-attribute parsing finishes before the search-attribute
\* and logger directives are composed; the rest as stated.
C10_StageOrder ==
    /\ StagesCommon
    /\ \A i, j \in DOMAIN stages :
          i < j => CodeRank(stages[i]) <= CodeRank(stages[j])
    /\ \A i \in DOMAIN stages :
          stages[i] = "Parsing" => (i = 3 /\ stages[2] = "Composing")
    /\ (WantsSearchAttributes(input) /\ ~ParseReturned) =>
          /\ ~HasOption("WithSearchAttributes")
          /\ ~HasOption("WithLogger")
    /\ pc = "Parse" =>
          OptionNames \in {BaseNames,
                           Append(BaseNames, "WithPersistenceDisabled")}

\* parseSearchAttributes about to run with five directives already composed.
C10_Witness ==
    /\ pc = "Parse"
    /\ Len(opts) = 5
    /\ stages = <<"Validating", "Composing", "Parsing">>

====
